---- MODULE Spec2Model ----
(***************************************************************************)
(* Ferment Radar (src/server.js, src/db.js).                               *)
(*                                                                         *)
(* The stress calculator calculateFermentStatus is a pure function of a    *)
(* ferment row, its move events and a reference time; the routes of the    *)
(* express application create, feed, move and list ferments through        *)
(* single SQL statements.                                                  *)
(*                                                                         *)
(* Units.  A timestamp is a whole number of hours since the epoch (the     *)
(* code holds milliseconds and divides a difference by 36e5).  A location  *)
(* multiplier is kept in thirds (counter 3/3, fridge 1/3), so stress is an *)
(* integer number of thirds of an hour and the arithmetic is exact.        *)
(* A ratio is the fraction num/den, or Infinity or NaN.                    *)
(***************************************************************************)
EXTENDS Integers, Sequences, FiniteSets, TLC

\* ------------------------------------------------------------------ bounds

\* Timestamps of the calculator's inputs range over 0..MaxTime.
MaxTime == 3
\* The calculator is given at most MaxEvents move events.
MaxEvents == 2
\* Reference times of the classifier's inputs range over 0..MaxHours.
MaxHours == 10

\* ------------------------------------------------------------------ values

\* SQL NULL / JavaScript null in a new_storage_location column.
NULL == "<null>"

\* The storage-location tags: the two the code knows, one it does not.
Tags == {"counter", "fridge", "cellar"}

\* What a move event may carry as its new location.
EventLocations == Tags \cup {NULL, ""}

\* JavaScript truthiness of a location value: null and "" are falsy.
Truthy(v) == v # NULL /\ v # ""

\* A Date object: its time value, or NaN (an Invalid Date).
ValidDate(t) == [nan |-> FALSE, time |-> t]
InvalidDate == [nan |-> TRUE, time |-> 0]

\* new Date(v) for a column value v: a timestamp parses to its instant,
\* anything else ("not-a-date") to an Invalid Date.
NewDate(v) == IF v.parses THEN ValidDate(v.time) ELSE InvalidDate

\* A last_fed_at column value holding the instant t, and one that does not parse.
Timestamp(t) == [parses |-> TRUE, time |-> t]
NotADate == [parses |-> FALSE, time |-> 0]

\* ------------------------------------------------------- locationMultiplier

\* Mutant: the fridge is given three times the baseline speed instead of a third.
locationMultiplier_mutFaster(location) ==
    CASE location = "counter" -> 3
      [] location = "fridge" -> 9
      [] OTHER -> 3

\* Mutant: an unrecognised tag is slowed like the fridge.
locationMultiplier_mutDefault(location) ==
    CASE location = "counter" -> 3
      [] OTHER -> 1

\* The speed relative to room temperature, in thirds.
locationMultiplier(location) ==
    CASE location = "counter" -> 3
      [] location = "fridge" -> 1
      [] OTHER -> 3

\* --------------------------------------------------- calculateFermentStatus

\* Mutant: the guard on an unparseable last_fed_at is lost.
IsInvalidLastFed_mutNever(lastFed) == FALSE

\* isNaN(lastFed.getTime())
IsInvalidLastFed(lastFed) == lastFed.nan

\* Mutant: the events are integrated in the order they were supplied.
SortEvents_mutNoSort(moveEvents) == moveEvents

\* One step of the stable sort: ev goes after every element whose
\* created_at is not later than its own.
RECURSIVE InsertSorted(_, _)
InsertSorted(sorted, ev) ==
    IF sorted = <<>> THEN <<ev>>
    ELSE IF ev.created_at < Head(sorted).created_at
         THEN <<ev>> \o sorted
         ELSE <<Head(sorted)>> \o InsertSorted(Tail(sorted), ev)

RECURSIVE SortFrom(_, _)
SortFrom(sorted, rest) ==
    IF rest = <<>> THEN sorted
    ELSE SortFrom(InsertSorted(sorted, Head(rest)), Tail(rest))

\* moveEvents.slice().sort(by created_at): a stable ascending sort of a copy.
SortEvents(moveEvents) == SortFrom(<<>>, moveEvents)

\* Mutant: sort() is applied to the caller's array itself, without slice().
CallersList_mutInPlace(moveEvents) == SortEvents(moveEvents)

\* The caller's array after the call: slice() made the copy that sort()
\* reordered, the array passed in is only read.
CallersList(moveEvents) == moveEvents

\* Mutant: an event at the cursor's instant is processed.
SkipsEvent_mutStrict(t, cursor) == (~t.nan /\ ~cursor.nan) /\ t.time < cursor.time

\* t <= cursor on two Dates: false when either is an Invalid Date.
SkipsEvent(t, cursor) == (~t.nan /\ ~cursor.nan) /\ t.time <= cursor.time

\* Mutant: the subtraction is written the wrong way round.
HoursBetween_mutSwapped(from, to) ==
    IF from.nan \/ to.nan THEN [nan |-> TRUE, val |-> 0]
    ELSE [nan |-> FALSE, val |-> from.time - to.time]

\* (to - from) / 36e5: a number of hours, NaN when either is an Invalid Date.
HoursBetween(from, to) ==
    IF from.nan \/ to.nan THEN [nan |-> TRUE, val |-> 0]
    ELSE [nan |-> FALSE, val |-> to.time - from.time]

\* Mutant: a segment is added whatever the sign of its duration.
SegmentStress_mutNoClamp(hours, location) ==
    IF hours.nan THEN 0 ELSE hours.val * locationMultiplier(location)

\* if (hours > 0) stressUnits += hours * locationMultiplier(currentLocation):
\* what one segment adds (NaN > 0 is false).
SegmentStress(hours, location) ==
    IF ~hours.nan /\ hours.val > 0
    THEN hours.val * locationMultiplier(location)
    ELSE 0

\* Mutant: the event's location is assigned even when it is null or empty.
ApplyMove_mutAlways(ev, currentLocation) == ev.new_storage_location

\* if (ev.new_storage_location) currentLocation = ev.new_storage_location
ApplyMove(ev, currentLocation) ==
    IF Truthy(ev.new_storage_location)
    THEN ev.new_storage_location
    ELSE currentLocation

\* The loop over the sorted events, from the i-th on.
RECURSIVE Integrate(_, _, _, _, _)
Integrate(events, i, cursor, currentLocation, stressUnits) ==
    IF i > Len(events)
    THEN [cursor |-> cursor, currentLocation |-> currentLocation,
          stressUnits |-> stressUnits]
    ELSE LET ev == events[i]
             t == ValidDate(ev.created_at)
         IN IF SkipsEvent(t, cursor)
            THEN Integrate(events, i + 1, cursor, currentLocation, stressUnits)
            ELSE Integrate(events, i + 1, t,
                           ApplyMove(ev, currentLocation),
                           stressUnits
                             + SegmentStress(HoursBetween(cursor, t), currentLocation))

\* stressUnits / baseInterval.  stressUnits is in thirds of an hour.
Divide(stressUnits, baseInterval) ==
    IF baseInterval = 0
    THEN [kind |-> IF stressUnits = 0 THEN "NaN" ELSE "Infinity",
          num |-> 0, den |-> 1]
    ELSE [kind |-> "finite", num |-> stressUnits, den |-> 3 * baseInterval]

\* ratio < p/q for a finite ratio and q > 0.
RatioLess(ratio, p, q) ==
    IF ratio.den > 0
    THEN ratio.num * q < p * ratio.den
    ELSE ratio.num * q > p * ratio.den

\* Mutant: the closing else is lost, so a ratio of 1 or more gets no label.
Classify_mutNoElse(ratio) ==
    IF ratio.kind # "finite" THEN "unknown"
    ELSE IF RatioLess(ratio, 7, 10) THEN "happy"
    ELSE IF RatioLess(ratio, 1, 1) THEN "due_soon"
    ELSE "undefined"

\* Mutant: the two thresholds are compared with <=.
Classify_mutInclusive(ratio) ==
    IF ratio.kind # "finite" THEN "unknown"
    ELSE IF RatioLess(ratio, 7, 10) \/ ratio.num * 10 = 7 * ratio.den THEN "happy"
    ELSE IF RatioLess(ratio, 1, 1) \/ ratio.num = ratio.den THEN "due_soon"
    ELSE "needs_feed"

\* The label of a ratio.
Classify(ratio) ==
    IF ratio.kind # "finite" THEN "unknown"
    ELSE IF RatioLess(ratio, 7, 10) THEN "happy"
    ELSE IF RatioLess(ratio, 1, 1) THEN "due_soon"
    ELSE "needs_feed"

\* The ratio 0 of the early return.
ZeroRatio == [kind |-> "finite", num |-> 0, den |-> 1]

calculateFermentStatus(ferment, moveEvents, now) ==
    LET baseInterval == ferment.base_feed_interval_hours
        lastFed == NewDate(ferment.last_fed_at)
    IN IF IsInvalidLastFed(lastFed)
       THEN [stress |-> 0, ratio |-> ZeroRatio, label |-> "unknown"]
       ELSE LET loop == Integrate(SortEvents(moveEvents), 1, lastFed,
                                  ferment.storage_location, 0)
                hoursFinal == HoursBetween(loop.cursor, ValidDate(now))
                stressUnits == loop.stressUnits
                                 + SegmentStress(hoursFinal, loop.currentLocation)
                ratio == Divide(stressUnits, baseInterval)
            IN [stress |-> stressUnits, ratio |-> ratio, label |-> Classify(ratio)]

\* ------------------------------------------------------------------- state

VARIABLES
    ferment,         \* calculator input: the ferment row
    moveEvents,      \* calculator input: the move events, as supplied
    now,             \* calculator input: the reference time
    status,          \* the calculator's result (NoStatus before the call)
    clock,           \* application: the wall clock, in hours
    ferments,        \* application: table ferments, in insertion order
    ferment_events,  \* application: table ferment_events, in insertion order
    requests,        \* application: the handlers in flight, by slot
    page,            \* application: fermentsWithStatus of the last GET /
    pageInputs,      \* history: what each entry of page was computed from
    fedLocation      \* history: the location each ferment had when last fed

vars == <<ferment, moveEvents, now, status, clock, ferments, ferment_events,
          requests, page, pageInputs, fedLocation>>

calcVars == <<ferment, moveEvents, now, status>>
appVars == <<clock, ferments, ferment_events, requests, page, pageInputs,
             fedLocation>>

\* status before calculateFermentStatus has been called.
NoStatus == [stress |-> 0, ratio |-> ZeroRatio, label |-> "none"]

\* A handler slot with no request in it.
\* rows is what a GET / read from ferments; fed, seen, quiet and half are
\* history: fedLocation and ferment_events as they were at that read, whether
\* the handler was then the only one in flight, and the event rows that the
\* feeds and moves then between their UPDATE and their INSERT had yet to write.
Idle == [kind |-> "idle", pc |-> "idle", id |-> 0, to |-> NULL, base |-> 0,
         nowIso |-> 0, rows |-> <<>>, fed |-> <<>>, seen |-> <<>>,
         quiet |-> FALSE, half |-> <<>>]

\* The application before its first request.
AppIdle ==
    /\ clock = 0
    /\ ferments = <<>>
    /\ ferment_events = <<>>
    /\ requests = <<>>
    /\ page = {}
    /\ pageInputs = {}
    /\ fedLocation = <<>>

\* ------------------------------------------------- the calculator, called

Times == 0 .. MaxTime

MoveEvent(t, loc) ==
    [event_type |-> "move", new_storage_location |-> loc, created_at |-> t]

MoveEventsAt(times) == {MoveEvent(t, loc) : t \in times, loc \in EventLocations}

SeqsUpTo(S, n) == UNION {[1 .. k -> S] : k \in 0 .. n}

\* The base interval of the calculator's inputs: 2 h puts both thresholds
\* inside the range of stress that MaxTime hours can produce.
CalcIntervals == {2}

InitCalc ==
    /\ ferment \in [storage_location : Tags,
                    base_feed_interval_hours : CalcIntervals,
                    last_fed_at : {Timestamp(t) : t \in Times} \cup {NotADate}]
    /\ moveEvents \in SeqsUpTo(MoveEventsAt(Times), MaxEvents)
    /\ now \in Times
    /\ status = NoStatus
    /\ AppIdle

\* One call of calculateFermentStatus(ferment, moveEvents, now).
Calculate ==
    /\ status = NoStatus
    /\ status' = calculateFermentStatus(ferment, moveEvents, now)
    /\ moveEvents' = CallersList(moveEvents)
    /\ UNCHANGED <<ferment, now>>
    /\ UNCHANGED appVars

NextCalc == Calculate

SpecCalc == InitCalc /\ [][NextCalc]_vars

\* The inputs of the claim about events at or before last_fed_at: a valid
\* last_fed_at, and lists of events that carry a known location or none
\* (the events added to them carry any of EventLocations).
InitStale ==
    /\ ferment \in [storage_location : {"counter", "fridge"},
                    base_feed_interval_hours : CalcIntervals,
                    last_fed_at : {Timestamp(t) : t \in Times}]
    /\ moveEvents \in SeqsUpTo({MoveEvent(t, loc) : t \in Times,
                                    loc \in {NULL, "counter", "fridge"}}, MaxEvents)
    /\ now \in Times
    /\ status = NoStatus
    /\ AppIdle

SpecStale == InitStale /\ [][NextCalc]_vars

\* The classifier's inputs: long spans and base intervals of either sign, so
\* that ratios fall below, on and above both thresholds.
ClassifyIntervals == {-10, 0, 1, 10}

InitClassify ==
    /\ ferment \in [storage_location : {"counter", "fridge"},
                    base_feed_interval_hours : ClassifyIntervals,
                    last_fed_at : {Timestamp(0), NotADate}]
    /\ moveEvents \in SeqsUpTo({MoveEvent(t, loc) : t \in 0 .. MaxHours,
                                                   loc \in {"counter", "fridge"}}, 1)
    /\ now \in 0 .. MaxHours
    /\ status = NoStatus
    /\ AppIdle

SpecClassify == InitClassify /\ [][NextCalc]_vars

\* Records and event lists of every shape at once: a last_fed_at that parses
\* or not, a known or unknown tag, a base interval that is positive, zero or
\* negative, events before, at and after last_fed_at and now, with or
\* without a new location.
AnyIntervals == {-2, 0, 2}

InitAny ==
    /\ ferment \in [storage_location : Tags,
                    base_feed_interval_hours : AnyIntervals,
                    last_fed_at : {Timestamp(t) : t \in Times} \cup {NotADate}]
    /\ moveEvents \in SeqsUpTo(MoveEventsAt(Times), MaxEvents)
    /\ now \in Times
    /\ status = NoStatus
    /\ AppIdle

SpecAny == InitAny /\ [][NextCalc]_vars

\* No two events of the list share a timestamp.
DistinctTimes(evs) ==
    \A i, j \in DOMAIN evs : evs[i].created_at = evs[j].created_at => i = j

\* The inputs of the claim about the order of the list: the lists in which
\* no two events share a timestamp, in every order.
InitOrder ==
    /\ ferment \in [storage_location : Tags,
                    base_feed_interval_hours : CalcIntervals,
                    last_fed_at : {Timestamp(t) : t \in Times} \cup {NotADate}]
    /\ moveEvents \in {evs \in SeqsUpTo(MoveEventsAt(Times), MaxEvents) :
                           DistinctTimes(evs)}
    /\ now \in Times
    /\ status = NoStatus
    /\ AppIdle

SpecOrder == InitOrder /\ [][NextCalc]_vars

\* -------------------------------------------------------- the application

\* The wall clock runs over 0..MaxClock.
MaxClock == 3
\* At most MaxRequests handlers are in flight at once.
MaxRequests == 2
\* Table ferments holds at most MaxFerments rows.
MaxFerments == 1
\* Table ferment_events holds at most MaxEventRows rows.
MaxEventRows == 2

\* The base interval a create falls back to.
DefaultInterval == 16

Slots == 1 .. MaxRequests

\* The locations the page's forms offer.
FormLocations == {"counter", "fridge"}

\* The values of the form field base_feed_interval_hours, as numbers.
FormIntervals == {-2, 0, 2}

\* Number(base_feed_interval_hours) || 16
FormInterval(n) == IF n = 0 THEN DefaultInterval ELSE n

InFlight(kinds) == Cardinality({s \in Slots : requests[s].kind \in kinds})

Done(s) == requests' = [requests EXCEPT ![s] = Idle]

\* The handler in slot s is the only one in flight.
Alone(s) == \A o \in Slots \ {s} : requests[o] = Idle

\* The ferment_events row that the feed or move request req inserts.
EventRowOf(req) ==
    [ferment_id |-> req.id, event_type |-> req.kind,
     new_storage_location |-> req.to, created_at |-> req.nowIso]

\* No row: the slot holds no feed or move that has run its UPDATE only.
NoRow == [ferment_id |-> 0, event_type |-> "none",
          new_storage_location |-> NULL, created_at |-> 0]

\* By slot, the row still to be inserted by a feed or move that has run its
\* UPDATE and not yet its INSERT.
HalfApplied ==
    [o \in Slots |->
        IF requests[o].kind \in {"feed", "move"} /\ requests[o].pc = "insert"
        THEN EventRowOf(requests[o])
        ELSE NoRow]

\* The sequences that hold the elements of rows once each, in any order.
Orders(rows) ==
    {[i \in 1 .. Len(rows) |-> rows[p[i]]] :
        p \in {q \in [1 .. Len(rows) -> 1 .. Len(rows)] :
                  \A i, j \in 1 .. Len(rows) : q[i] = q[j] => i = j}}

Init ==
    /\ ferment = [storage_location |-> "counter",
                  base_feed_interval_hours |-> DefaultInterval,
                  last_fed_at |-> Timestamp(0)]
    /\ moveEvents = <<>>
    /\ now = 0
    /\ status = NoStatus
    /\ clock = 0
    /\ ferments = <<>>
    /\ ferment_events = <<>>
    /\ requests = [s \in Slots |-> Idle]
    /\ page = {}
    /\ pageInputs = {}
    /\ fedLocation = <<>>

\* An hour passes.
Tick ==
    /\ clock < MaxClock
    /\ clock' = clock + 1
    /\ UNCHANGED <<ferments, ferment_events, requests, page, pageInputs, fedLocation>>
    /\ UNCHANGED calcVars

\* POST /ferments, up to its INSERT: the body is read, nowIso is taken.
ReceiveCreate(s, location, interval) ==
    /\ requests[s] = Idle
    /\ Len(ferments) + InFlight({"create"}) < MaxFerments
    /\ requests' = [requests EXCEPT ![s] =
           [Idle EXCEPT !.kind = "create", !.pc = "insert", !.to = location,
                        !.base = FormInterval(interval), !.nowIso = clock]]
    /\ UNCHANGED <<clock, ferments, ferment_events, page, pageInputs, fedLocation>>
    /\ UNCHANGED calcVars

\* POST /ferments: INSERT INTO ferments, then the redirect.
CreateInsert(s) ==
    /\ requests[s].kind = "create" /\ requests[s].pc = "insert"
    /\ ferments' = Append(ferments,
           [id |-> Len(ferments) + 1,
            storage_location |-> requests[s].to,
            base_feed_interval_hours |-> requests[s].base,
            last_fed_at |-> Timestamp(requests[s].nowIso),
            created_at |-> requests[s].nowIso])
    /\ fedLocation' = Append(fedLocation, requests[s].to)
    /\ Done(s)
    /\ UNCHANGED <<clock, ferment_events, page, pageInputs>>
    /\ UNCHANGED calcVars

\* POST /ferments/:id/feed, up to its UPDATE: nowIso is taken.
ReceiveFeed(s, id) ==
    /\ requests[s] = Idle
    /\ id \in 1 .. Len(ferments)
    /\ Len(ferment_events) + InFlight({"feed", "move"}) < MaxEventRows
    /\ requests' = [requests EXCEPT ![s] =
           [Idle EXCEPT !.kind = "feed", !.pc = "update", !.id = id,
                        !.nowIso = clock]]
    /\ UNCHANGED <<clock, ferments, ferment_events, page, pageInputs, fedLocation>>
    /\ UNCHANGED calcVars

\* POST /ferments/:id/feed: UPDATE ferments SET last_fed_at.
FeedUpdate(s) ==
    /\ requests[s].kind = "feed" /\ requests[s].pc = "update"
    /\ ferments' = [ferments EXCEPT ![requests[s].id].last_fed_at =
                                        Timestamp(requests[s].nowIso)]
    /\ fedLocation' = [fedLocation EXCEPT ![requests[s].id] =
                                        ferments[requests[s].id].storage_location]
    /\ requests' = [requests EXCEPT ![s].pc = "insert"]
    /\ UNCHANGED <<clock, ferment_events, page, pageInputs>>
    /\ UNCHANGED calcVars

\* POST /ferments/:id/feed: INSERT the feed event, then the redirect.
FeedInsert(s) ==
    /\ requests[s].kind = "feed" /\ requests[s].pc = "insert"
    /\ ferment_events' = Append(ferment_events,
           [ferment_id |-> requests[s].id, event_type |-> "feed",
            new_storage_location |-> NULL, created_at |-> requests[s].nowIso])
    /\ Done(s)
    /\ UNCHANGED <<clock, ferments, page, pageInputs, fedLocation>>
    /\ UNCHANGED calcVars

\* POST /ferments/:id/move, up to its UPDATE: to and nowIso are taken.
ReceiveMove(s, id, to) ==
    /\ requests[s] = Idle
    /\ id \in 1 .. Len(ferments)
    /\ Len(ferment_events) + InFlight({"feed", "move"}) < MaxEventRows
    /\ requests' = [requests EXCEPT ![s] =
           [Idle EXCEPT !.kind = "move", !.pc = "update", !.id = id, !.to = to,
                        !.nowIso = clock]]
    /\ UNCHANGED <<clock, ferments, ferment_events, page, pageInputs, fedLocation>>
    /\ UNCHANGED calcVars

\* POST /ferments/:id/move: UPDATE ferments SET storage_location.
MoveUpdate(s) ==
    /\ requests[s].kind = "move" /\ requests[s].pc = "update"
    /\ ferments' = [ferments EXCEPT ![requests[s].id].storage_location =
                                        requests[s].to]
    /\ requests' = [requests EXCEPT ![s].pc = "insert"]
    /\ UNCHANGED <<clock, ferment_events, page, pageInputs, fedLocation>>
    /\ UNCHANGED calcVars

\* POST /ferments/:id/move: INSERT the move event, then the redirect.
MoveInsert(s) ==
    /\ requests[s].kind = "move" /\ requests[s].pc = "insert"
    /\ ferment_events' = Append(ferment_events,
           [ferment_id |-> requests[s].id, event_type |-> "move",
            new_storage_location |-> requests[s].to,
            created_at |-> requests[s].nowIso])
    /\ Done(s)
    /\ UNCHANGED <<clock, ferments, page, pageInputs, fedLocation>>
    /\ UNCHANGED calcVars

\* GET / arrives.  The handler only reads the tables: one in flight at a
\* time reads all that several would.
ReceiveList(s) ==
    /\ requests[s] = Idle
    /\ InFlight({"list"}) = 0
    /\ requests' = [requests EXCEPT ![s] =
           [Idle EXCEPT !.kind = "list", !.pc = "ferments"]]
    /\ UNCHANGED <<clock, ferments, ferment_events, page, pageInputs, fedLocation>>
    /\ UNCHANGED calcVars

\* GET /: SELECT ... FROM ferments.  With no ferment the page is rendered
\* at once, without the second query.
ListSelectFerments(s) ==
    /\ requests[s].kind = "list" /\ requests[s].pc = "ferments"
    /\ IF ferments = <<>>
       THEN /\ page' = {}
            /\ pageInputs' = {}
            /\ Done(s)
       ELSE /\ requests' = [requests EXCEPT ![s].pc = "moves",
                                            ![s].rows = ferments,
                                            ![s].fed = fedLocation,
                                            ![s].seen = ferment_events,
                                            ![s].quiet = Alone(s),
                                            ![s].half = HalfApplied]
            /\ UNCHANGED <<page, pageInputs>>
    /\ UNCHANGED <<clock, ferments, ferment_events, fedLocation>>
    /\ UNCHANGED calcVars

\* The rows of the second query: the move events of the ferments read, in
\* an order the query does not fix.
SelectMoves(ids) ==
    Orders(SelectSeq(ferment_events,
                     LAMBDA e : e.event_type = "move" /\ e.ferment_id \in ids))

\* movesByFerment[f.id] || []
MovesOf(rows, id) == SelectSeq(rows, LAMBDA e : e.ferment_id = id)

\* The handler in slot s was the only one in flight at both of its queries
\* and the tables are at the second what they were at the first: it has
\* read what a request served alone reads.
Undisturbed(s) ==
    /\ requests[s].quiet /\ Alone(s)
    /\ requests[s].rows = ferments
    /\ requests[s].fed = fedLocation
    /\ requests[s].seen = ferment_events

\* The rows inserted into ferment_events since the handler in slot s read
\* the ferments.
InsertedSince(s) ==
    SubSeq(ferment_events, Len(requests[s].seen) + 1, Len(ferment_events))

\* How many of the feeds and moves that were half applied at the first query
\* of the handler in slot s had row still to insert, and how many rows equal
\* to row have been inserted since.
HalfThen(s, row) ==
    Cardinality({o \in DOMAIN requests[s].half : requests[s].half[o] = row})
InsertedOf(s, row) ==
    Cardinality({i \in DOMAIN InsertedSince(s) : InsertedSince(s)[i] = row})

\* The handler in slot s read a ferment row that a feed or move had already
\* updated, and reads the events before that feed or move inserts its own.
UpdateWithoutEvent(s) ==
    \E o \in DOMAIN requests[s].half :
        /\ requests[s].half[o] # NoRow
        /\ HalfThen(s, requests[s].half[o]) > InsertedOf(s, requests[s].half[o])

\* The handler in slot s reads the event of a move whose UPDATE came after
\* its read of the ferments.
EventWithoutUpdate(s) ==
    \E i \in DOMAIN InsertedSince(s) :
        /\ InsertedSince(s)[i].event_type = "move"
        /\ InsertedOf(s, InsertedSince(s)[i]) > HalfThen(s, InsertedSince(s)[i])

\* GET /: SELECT ... FROM ferment_events, the grouping by ferment, now is
\* taken and every ferment's status computed; the page is sent.
ListSelectMoves(s) ==
    /\ requests[s].kind = "list" /\ requests[s].pc = "moves"
    /\ LET fs == requests[s].rows
           ids == {fs[i].id : i \in 1 .. Len(fs)}
       IN \E rows \in SelectMoves(ids) :
            /\ page' = {[ferment |-> fs[i],
                         status |-> calculateFermentStatus(
                                        fs[i], MovesOf(rows, fs[i].id), clock)] :
                           i \in 1 .. Len(fs)}
            /\ pageInputs' = {[id |-> fs[i].id,
                               moves |-> MovesOf(rows, fs[i].id),
                               now |-> clock,
                               fedLocation |-> requests[s].fed[fs[i].id],
                               consistent |-> Undisturbed(s),
                               updateOnly |-> UpdateWithoutEvent(s),
                               eventOnly |-> EventWithoutUpdate(s)] :
                                 i \in 1 .. Len(fs)}
    /\ Done(s)
    /\ UNCHANGED <<clock, ferments, ferment_events, fedLocation>>
    /\ UNCHANGED calcVars

Next ==
    \/ Tick
    \/ \E s \in Slots, location \in FormLocations, interval \in FormIntervals :
          ReceiveCreate(s, location, interval)
    \/ \E s \in Slots : CreateInsert(s)
    \/ \E s \in Slots, id \in 1 .. MaxFerments : ReceiveFeed(s, id)
    \/ \E s \in Slots : FeedUpdate(s)
    \/ \E s \in Slots : FeedInsert(s)
    \/ \E s \in Slots, id \in 1 .. MaxFerments, to \in FormLocations :
          ReceiveMove(s, id, to)
    \/ \E s \in Slots : MoveUpdate(s)
    \/ \E s \in Slots : MoveInsert(s)
    \/ \E s \in Slots : ReceiveList(s)
    \/ \E s \in Slots : ListSelectFerments(s)
    \/ \E s \in Slots : ListSelectMoves(s)

Spec == Init /\ [][Next]_vars

\* ------------------------------------------------- vocabulary of the claims

\* calculateFermentStatus has returned.
Called == status # NoStatus

\* last_fed_at parses to a valid instant.
LastFedValid == ferment.last_fed_at.parses

LastFedTime == ferment.last_fed_at.time

BaseInterval == ferment.base_feed_interval_hours

\* The list evs with e put in after its first k elements.
InsertAt(evs, k, e) == SubSeq(evs, 1, k) \o <<e>> \o SubSeq(evs, k + 1, Len(evs))

MaxOf(S) == CHOOSE x \in S : \A y \in S : y <= x

\* The events of evs with index in I, in ascending time order, events of
\* the same timestamp in the order of the list.
Rank(evs, I, i) ==
    1 + Cardinality({j \in I : \/ evs[j].created_at < evs[i].created_at
                               \/ /\ evs[j].created_at = evs[i].created_at
                                  /\ j < i})

InTimeOrder(evs, I) ==
    [r \in 1 .. Cardinality(I) |-> evs[CHOOSE i \in I : Rank(evs, I, i) = r]]

\* The instants that bound the segments of the timeline lastFed, P[1],
\* ..., P[Len(P)], n: the j-th segment runs from Boundary(j-1) to Boundary(j).
Boundary(P, j, lastFed, n) ==
    IF j = 0 THEN lastFed
    ELSE IF j > Len(P) THEN n
    ELSE P[j].created_at

\* The location in effect during the j-th segment: that of the latest event
\* before it which carries one, the record's storage_location if none does.
LocationDuring(P, j, initial, Carries(_)) ==
    LET carriers == {k \in 1 .. (j - 1) : Carries(P[k].new_storage_location)}
    IN IF carriers = {} THEN initial
       ELSE P[MaxOf(carriers)].new_storage_location

NonNull(v) == v # NULL

Positive(h) == IF h > 0 THEN h ELSE 0

\* ---------------------------------------------------------------------- C1

\* The events strictly after last_fed_at.
AfterLastFed(evs, lastFed) == {i \in 1 .. Len(evs) : evs[i].created_at > lastFed}

\* The events the loop processes: strictly after last_fed_at, and the first
\* in the list among those of their timestamp.
Processed(evs, lastFed) ==
    {i \in AfterLastFed(evs, lastFed) :
        \A j \in 1 .. (i - 1) : evs[j].created_at # evs[i].created_at}

\* Sum over the segments j..Len(P)+1 of elapsed hours x multiplier, as C1 states it.
RECURSIVE SegmentSumAsClaimed(_, _, _, _, _)
SegmentSumAsClaimed(P, j, lastFed, initial, n) ==
    IF j > Len(P) + 1 THEN 0
    ELSE (Boundary(P, j, lastFed, n) - Boundary(P, j - 1, lastFed, n))
           * locationMultiplier(LocationDuring(P, j, initial, NonNull))
         + SegmentSumAsClaimed(P, j + 1, lastFed, initial, n)

\* The same sum with a segment counted only when its duration is positive,
\* and the location changed only by a non-empty new location.
RECURSIVE SegmentSumClamped(_, _, _, _, _)
SegmentSumClamped(P, j, lastFed, initial, n) ==
    IF j > Len(P) + 1 THEN 0
    ELSE Positive(Boundary(P, j, lastFed, n) - Boundary(P, j - 1, lastFed, n))
           * locationMultiplier(LocationDuring(P, j, initial, Truthy))
         + SegmentSumClamped(P, j + 1, lastFed, initial, n)

\* C1 as stated: for a valid last_fed_at, stress is the sum over the segments
\* [last_fed_at, e1], ..., [ek, now] formed by the events strictly after
\* last_fed_at in ascending time order of elapsed hours x the multiplier of
\* the location in effect, which changes at each event carrying a non-null
\* new location.
C1_AsClaimed ==
    (Called /\ LastFedValid) =>
        status.stress =
            SegmentSumAsClaimed(
                InTimeOrder(moveEvents, AfterLastFed(moveEvents, LastFedTime)),
                1, LastFedTime, ferment.storage_location, now)

\* C1 (amended): for a valid last_fed_at, stress is the sum over the segments
\* formed by the processed events (strictly after last_fed_at, an event that
\* shares its timestamp with an earlier one of the list being skipped) of
\* max(0, elapsed hours) x the multiplier of the location in effect, which
\* changes at each processed event carrying a non-empty new location.
C1_SegmentSum ==
    (Called /\ LastFedValid) =>
        status.stress =
            SegmentSumClamped(
                InTimeOrder(moveEvents, Processed(moveEvents, LastFedTime)),
                1, LastFedTime, ferment.storage_location, now)

\* The spec's scenario, in hours that fit the bound: one hour on the counter,
\* then two in the fridge, 1*1 + 2*(1/3) = 5/3.
C1_Witness ==
    /\ Called
    /\ ferment.last_fed_at = Timestamp(0)
    /\ ferment.storage_location = "counter"
    /\ moveEvents = <<MoveEvent(1, "fridge")>>
    /\ now = 3
    /\ status.stress = 5

\* ---------------------------------------------------------------------- C2

\* What pageInputs records for the page's entry of ferment id.
InputsOf(id) == CHOOSE inp \in pageInputs : inp.id = id

\* C2: the status on the listing page integrates the first segment with the
\* multiplier of the location the ferment was in when it was last fed: a
\* page computed from tables that no other request was changing shows the
\* stress of the same row, events and reference time with that location as
\* the starting location.
C2_FirstSegmentAtFedLocation ==
    \A entry \in page :
        LET inp == InputsOf(entry.ferment.id)
        IN inp.consistent =>
           entry.status.stress =
               calculateFermentStatus(
                   [entry.ferment EXCEPT !.storage_location = inp.fedLocation],
                   inp.moves, inp.now).stress

\* ---------------------------------------------------------------------- C3

\* No event of the list changes the location: each is a null-location
\* marker or carries the location the record already has.
NoLocationChange ==
    \A i \in 1 .. Len(moveEvents) :
        moveEvents[i].new_storage_location \in {NULL, ferment.storage_location}

\* hoursBetween(lastFedAt, now) * speedMultiplier(initialLocation), in thirds.
SingleSegment ==
    (now - LastFedTime) * locationMultiplier(ferment.storage_location)

\* C3 as stated: if no event changes the location, stress equals
\* hoursBetween(lastFedAt, now) * speedMultiplier(initialLocation), for every
\* lastFedAt, now and event list.
C3_AsClaimed ==
    (Called /\ LastFedValid /\ NoLocationChange) => status.stress = SingleSegment

\* The latest of last_fed_at, now and the events' timestamps.
LatestInstant ==
    MaxOf({LastFedTime, now}
            \cup {moveEvents[i].created_at : i \in 1 .. Len(moveEvents)})

\* C3 (amended): if no event changes the location, stress equals
\* hoursBetween(lastFedAt, latest) * speedMultiplier(initialLocation), where
\* latest is the latest of lastFedAt, now and the events' timestamps; that
\* is hoursBetween(lastFedAt, now) * speedMultiplier(initialLocation) when
\* lastFedAt is not later than now and no event is later than now.
C3_SingleSegment ==
    (Called /\ LastFedValid /\ NoLocationChange) =>
        /\ status.stress = (LatestInstant - LastFedTime)
                              * locationMultiplier(ferment.storage_location)
        /\ LatestInstant = now => status.stress = SingleSegment

\* Two hours in the fridge with a null marker and a same-location event
\* strictly inside the span.
C3_Witness ==
    /\ Called
    /\ ferment.last_fed_at = Timestamp(0)
    /\ ferment.storage_location = "fridge"
    /\ moveEvents = <<MoveEvent(2, "fridge"), MoveEvent(1, NULL)>>
    /\ now = 3
    /\ status.stress = 3

\* ---------------------------------------------------------------------- C4

\* C4: a zero or negative base interval yields the label unknown, for every
\* valid last_fed_at, event list and now.
C4_DegenerateIsUnknown ==
    (Called /\ LastFedValid /\ BaseInterval <= 0) => status.label = "unknown"

\* ---------------------------------------------------------------------- C5

\* C5: the ratio stress / base interval of a classified result, when finite
\* (base interval not 0), is labelled happy exactly when it is < 0.7,
\* due_soon exactly when 0.7 <= it < 1.0, needs_feed exactly when it is >= 1.0.
\* stress is in thirds of an hour: ratio < 7/10 is 10 * stress < 21 * base
\* for a positive base, and holds for a negative one (the ratio is <= 0).
C5_Thresholds ==
    (Called /\ LastFedValid /\ BaseInterval # 0) =>
        LET below07 == IF BaseInterval > 0
                       THEN 10 * status.stress < 21 * BaseInterval
                       ELSE TRUE
            below1 == IF BaseInterval > 0
                      THEN status.stress < 3 * BaseInterval
                      ELSE TRUE
        IN /\ status.ratio.kind = "finite"
           /\ status.ratio.num * 3 * BaseInterval = status.stress * status.ratio.den
           /\ (status.label = "happy") <=> below07
           /\ (status.label = "due_soon") <=> (~below07 /\ below1)
           /\ (status.label = "needs_feed") <=> ~below1

\* A ratio of exactly 0.7: seven hours on the counter against a base of ten.
C5_Witness ==
    /\ Called /\ LastFedValid
    /\ BaseInterval = 10
    /\ status.stress = 21
    /\ status.label = "due_soon"

\* ---------------------------------------------------------------------- C6

\* C6: if last_fed_at does not parse, the result is {stress: 0, ratio: 0,
\* label: "unknown"} whatever the location, the events and now.
C6_InvalidLastFed ==
    (Called /\ ~LastFedValid) =>
        /\ status.stress = 0
        /\ status.ratio.kind = "finite" /\ status.ratio.num = 0
        /\ status.label = "unknown"

\* An unparseable last_fed_at with a zero base interval, a move and a late
\* reference time: the ratio is 0, not the NaN that 0 / 0 would give.
C6_Witness ==
    /\ Called /\ ~LastFedValid
    /\ BaseInterval = 0
    /\ moveEvents = <<MoveEvent(1, "counter")>>
    /\ ferment.storage_location = "fridge"
    /\ now = MaxHours
    /\ status.ratio = ZeroRatio
    /\ status.label = "unknown"

\* ---------------------------------------------------------------------- C7

\* C7: with the record and the events fixed, the stress at any reference
\* time now2 >= now is at least the stress at now.
C7_Monotone ==
    Called =>
        \A now2 \in now .. (MaxTime + 1) :
            calculateFermentStatus(ferment, moveEvents, now2).stress >= status.stress

\* A later reference time that strictly raises the stress, with a move between.
C7_Witness ==
    /\ Called /\ LastFedValid
    /\ moveEvents # <<>>
    /\ status.stress > 0
    /\ now < MaxTime
    /\ calculateFermentStatus(ferment, moveEvents, now + 1).stress > status.stress

\* ---------------------------------------------------------------------- C8

\* The events at or before last_fed_at.
StaleEvents == MoveEventsAt({t \in Times : t <= LastFedTime})

\* C8: adding an event with created_at <= last_fed_at, with any new
\* location, anywhere in the list leaves stress, ratio and label unchanged.
\* The list ranges over every list of up to MaxEvents events, those that
\* already hold such events included, so additions compose.
C8_StaleEventsIgnored ==
    (Called /\ LastFedValid) =>
        \A e \in StaleEvents : \A k \in 0 .. Len(moveEvents) :
            calculateFermentStatus(ferment, InsertAt(moveEvents, k, e), now) = status

\* A list that holds a stale move to another location besides a later move.
C8_Witness ==
    /\ Called /\ LastFedValid
    /\ ferment.storage_location = "counter"
    /\ LastFedTime = 1
    /\ moveEvents = <<MoveEvent(2, "counter"), MoveEvent(1, "fridge")>>
    /\ now = 3
    /\ status.stress = 6

\* ---------------------------------------------------------------------- C9

\* C9: adding a null-location event at any time strictly between
\* last_fed_at and now, anywhere in the list, leaves the result unchanged.
C9_MarkerIsNoOp ==
    (Called /\ LastFedValid) =>
        \A t \in Times : (LastFedTime < t /\ t < now) =>
            \A k \in 0 .. Len(moveEvents) :
                calculateFermentStatus(
                    ferment, InsertAt(moveEvents, k, MoveEvent(t, NULL)), now) = status

\* --------------------------------------------------------------------- C10

\* C10: the returned stress is never negative.
C10_StressNonNegative == Called => status.stress >= 0

\* A reference time before last_fed_at, with events out of order and later
\* than the reference time.
C10_Witness ==
    /\ Called /\ LastFedValid
    /\ now < LastFedTime
    /\ Len(moveEvents) = 2
    /\ moveEvents[1].created_at > moveEvents[2].created_at
    /\ moveEvents[2].created_at > now
    /\ status.stress >= 0

\* --------------------------------------------------------------------- C11

Labels == {"unknown", "happy", "due_soon", "needs_feed"}

\* C11: whatever the record (last_fed_at parsing or not, any tag, a base
\* interval of any sign or zero) and whatever the events (any timestamps,
\* with or without a new location), the call returns a result: a stress that
\* is a number, a ratio that is finite, Infinity or NaN, and a label that is
\* one of unknown, happy, due_soon, needs_feed.
C11_AlwaysALabel ==
    Called =>
        /\ status.label \in Labels
        /\ status.stress \in Nat
        /\ status.ratio.kind \in {"finite", "Infinity", "NaN"}

\* An unknown tag, a zero base interval and an event with an empty location
\* after now, together.
C11_Witness ==
    /\ Called /\ LastFedValid
    /\ ferment.storage_location = "cellar"
    /\ BaseInterval = 0
    /\ \E i \in DOMAIN moveEvents :
           moveEvents[i].new_storage_location = "" /\ moveEvents[i].created_at > now
    /\ status.label = "unknown"

\* --------------------------------------------------------------------- C12

\* The move events of a page entry's input that are later than last_fed_at.
MovesAfter(moves, lastFed) == SelectSeq(moves, LAMBDA e : e.created_at > lastFed)

\* C12: on every listing page, a ferment whose last_fed_at is the page's
\* reference time (it was fed at that instant) has stress 0, and the label
\* happy when its base interval is positive, however many moves came before;
\* and the status of every ferment is the one computed from the move events
\* later than its last_fed_at alone: the moves recorded up to the feed have
\* no effect on it.
C12_FeedResets ==
    \A entry \in page :
        LET inp == InputsOf(entry.ferment.id)
            T == entry.ferment.last_fed_at.time
        IN /\ inp.now = T =>
                  /\ entry.status.stress = 0
                  /\ entry.ferment.base_feed_interval_hours > 0 =>
                         entry.status.label = "happy"
           /\ entry.status =
                  calculateFermentStatus(entry.ferment, MovesAfter(inp.moves, T), inp.now)

\* A ferment moved to the fridge, fed an hour or more later and listed at the
\* instant of the feed: the page was handed the move, and shows stress 0.
C12_Witness ==
    \E entry \in page :
        LET inp == InputsOf(entry.ferment.id)
            T == entry.ferment.last_fed_at.time
        IN /\ \E i \in DOMAIN ferment_events :
                  /\ ferment_events[i].event_type = "feed"
                  /\ ferment_events[i].ferment_id = entry.ferment.id
                  /\ ferment_events[i].created_at = T
           /\ \E j \in DOMAIN inp.moves :
                  /\ inp.moves[j].created_at < T
                  /\ inp.moves[j].new_storage_location = "fridge"
           /\ entry.ferment.created_at < T
           /\ inp.now = T
           /\ entry.status.stress = 0
           /\ entry.status.label = "happy"

\* --------------------------------------------------------------------- C13

Unrecognized(v) == v \notin {"counter", "fridge", NULL}

\* The same, the empty string excepted.
UnrecognizedNonEmpty(v) == Unrecognized(v) /\ v # ""

\* The record with its tag replaced by counter.
RecordAsCounter(f) == [f EXCEPT !.storage_location = "counter"]

\* The list with the tag of its k-th event replaced by counter.
EventAsCounter(evs, k) == [evs EXCEPT ![k].new_storage_location = "counter"]

C15_ConsistentSnapshot ==
    \A inp \in pageInputs : ~inp.updateOnly /\ ~inp.eventOnly

\* --------------------------------------------------------------------- C16

\* C16: when the list is two events of one timestamp later than last_fed_at,
\* both are applied, in the order of the list: the segment up to them is
\* integrated at the record's location, and the segment that follows at the
\* location left by the first event and then the second.
C16_TiedEventsBothApplied ==
    (/\ Called /\ LastFedValid
     /\ Len(moveEvents) = 2
     /\ moveEvents[1].created_at = moveEvents[2].created_at
     /\ moveEvents[1].created_at > LastFedTime) =>
        LET t == moveEvents[1].created_at
            after == ApplyMove(moveEvents[2],
                               ApplyMove(moveEvents[1], ferment.storage_location))
        IN status.stress =
               (t - LastFedTime) * locationMultiplier(ferment.storage_location)
             + Positive(now - t) * locationMultiplier(after)

\* --------------------------------------------------------------------- C17

\* C17: when no two events of the list share a timestamp, the events
\* supplied in any other order give the same stress, ratio and label.
C17_OrderIrrelevant ==
    (Called /\ DistinctTimes(moveEvents)) =>
        \A permuted \in Orders(moveEvents) :
            calculateFermentStatus(ferment, permuted, now) = status

\* The later event supplied first: the result is that of the events in time
\* order, one hour on the counter, one in the fridge, one in the cellar.
C17_Witness ==
    /\ Called /\ LastFedValid
    /\ LastFedTime = 0
    /\ ferment.storage_location = "counter"
    /\ moveEvents = <<MoveEvent(2, "cellar"), MoveEvent(1, "fridge")>>
    /\ now = 3
    /\ status.stress = 3 + 1 + 3
    /\ status.label = "needs_feed"

\* --------------------------------------------------------------------- C18

\* One hour at baseline speed, in the unit of stress (thirds of an hour).
BaselineHour == locationMultiplier("counter")

MoveRowsOf(id) ==
    {i \in DOMAIN ferment_events :
        /\ ferment_events[i].event_type = "move"
        /\ ferment_events[i].ferment_id = id}

\* Those of the latest created_at (more than one when moves share it).
MostRecentMoves(id) ==
    {i \in MoveRowsOf(id) :
        \A j \in MoveRowsOf(id) :
            ferment_events[j].created_at <= ferment_events[i].created_at}

\* C19: whenever no move request is in progress, the storage_location of a
\* ferment that has move events is the new_storage_location of its most
\* recent move event by created_at (of one of them, when several share the
\* latest created_at), however the statements of the move requests interleaved.
C19_LocationIsLastMove ==
    InFlight({"move"}) = 0 =>
        \A id \in DOMAIN ferments :
            MoveRowsOf(id) # {} =>
                \E i \in MostRecentMoves(id) :
                    ferments[id].storage_location = ferment_events[i].new_storage_location

====
